---- MODULE Spec2Model ----
(***************************************************************************)
(* Model of src/routes/projectMemberInvites/create.js: the route that      *)
(* creates member invites for one project.  One invocation of the handler  *)
(* is a small state machine (the synchronous prefix, the join of the role  *)
(* lookups, the read of the pending invites, the bulk email lookup, the    *)
(* join of the creates, the response); the invite table is shared.         *)
(*                                                                         *)
(* Spec runs the invocations one after the other, SpecOverlap runs two at  *)
(* the same time, SpecEarlierInvite starts from a project that holds an    *)
(* invite by email, SpecCompare calls compareEmail on its own.             *)
(*                                                                         *)
(* Strings that the code inspects character by character (emails) are      *)
(* sequences of one-character strings.                                     *)
(***************************************************************************)
EXTENDS Integers, Sequences, FiniteSets, Bags, TLC

(***************************************************************************)
(* Bounds of the model.                                                    *)
(***************************************************************************)
\* invocations of the handler in one behaviour
MaxCalls == 2
\* candidates (user ids and emails together) of one request
MaxCandidates == 2
\* characters of the local part of an address given to compareEmail
MaxLocalLen == 5

(***************************************************************************)
(* Generic helpers on sequences.                                           *)
(***************************************************************************)
Range(s) == {s[i] : i \in 1..Len(s)}

SeqsUpTo(S, n) == UNION {[1..k -> S] : k \in 0..n}

(***************************************************************************)
(* Characters and emails.                                                  *)
(***************************************************************************)
UpperToLower ==
  ("A" :> "a") @@ ("B" :> "b") @@ ("M" :> "m") @@ ("N" :> "n") @@
  ("R" :> "r") @@ ("X" :> "x") @@ ("G" :> "g")

Letters ==
  {"a","b","c","d","e","f","g","h","i","j","k","l","m",
   "n","o","p","q","r","s","t","u","v","w","x","y","z"}
Digits == {"0","1","2","3","4","5","6","7","8","9"}

\* \w of a JavaScript regular expression
WordChars == Letters \cup DOMAIN UpperToLower \cup Digits \cup {"_"}

toLowerChar(c) == IF c \in DOMAIN UpperToLower THEN UpperToLower[c] ELSE c

\* _.toLower (of null or undefined, modelled as <<>>: the empty string)
toLower(s) == [i \in 1..Len(s) |-> toLowerChar(s[i])]

GmailDomain == <<"@","g","m","a","i","l",".","c","o","m">>
GooglemailDomain == <<"@","g","o","o","g","l","e","m","a","i","l",".","c","o","m">>

IsSuffix(suf, s) ==
  /\ Len(suf) <= Len(s)
  /\ SubSeq(s, Len(s) - Len(suf) + 1, Len(s)) = suf

\* /(^[\w.+-]+)(@gmail\.com|@googlemail\.com)$/g.exec(s): <<>> when there is
\* no match, else <<group 1, group 2>>.  The local part holds no "@", so the
\* domain is the one suffix that fits.
LocalClassChars == WordChars \cup {".", "+", "-"}

emailSplit(s) ==
  LET try(dom) ==
        /\ IsSuffix(dom, s)
        /\ Len(s) > Len(dom)
        /\ \A i \in 1..(Len(s) - Len(dom)) : s[i] \in LocalClassChars
  IN  IF try(GmailDomain)
        THEN <<SubSeq(s, 1, Len(s) - Len(GmailDomain)), GmailDomain>>
      ELSE IF try(GooglemailDomain)
        THEN <<SubSeq(s, 1, Len(s) - Len(GooglemailDomain)), GooglemailDomain>>
      ELSE <<>>

\* String.prototype.replace('.', r) with a string pattern: the FIRST "." only
RECURSIVE replaceFirstDot(_, _)
replaceFirstDot(s, r) ==
  IF s = <<>> THEN <<>>
  ELSE IF Head(s) = "." THEN r \o Tail(s)
  ELSE <<Head(s)>> \o replaceFirstDot(Tail(s), r)

(***************************************************************************)
(* The regular expression compareEmail builds.  A pattern is a sequence of *)
(* items: [t |-> "lit", c |-> ch] (a literal), [t |-> "any"] (an unescaped *)
(* "."), [t |-> "optdot"] (the joiner \.?), [t |-> "plus"] (an unescaped   *)
(* "+", a quantifier).                                                     *)
(***************************************************************************)
Lit(ch) == [t |-> "lit", c |-> ch]
AnyItem == [t |-> "any", c |-> "."]
OptDot == [t |-> "optdot", c |-> "."]
PlusItem == [t |-> "plus", c |-> "+"]

\* one character of the dot-stripped local part, as it reads inside a RegExp
addressItem(ch) ==
  IF ch = "." THEN AnyItem
  ELSE IF ch = "+" THEN PlusItem
  ELSE Lit(ch)

\* address.split('').join('\\.?')
RECURSIVE regexAddress(_)
regexAddress(address) ==
  IF address = <<>> THEN <<>>
  ELSE IF Len(address) = 1 THEN <<addressItem(address[1])>>
  ELSE <<addressItem(address[1]), OptDot>> \o regexAddress(Tail(address))

\* emailSplit[2].replace('.', '\\.'): the domain with its one dot escaped
regexDomain(dom) == [i \in 1..Len(dom) |-> Lit(dom[i])]

\* new RegExp(src) throws SyntaxError ("nothing to repeat") when a quantifier
\* opens the pattern or follows another quantifier: every "+" of the address
\* does, since it is either first or right after the joiner \.?
RegExpThrows(pat) ==
  \E i \in 1..Len(pat) :
    /\ pat[i].t = "plus"
    /\ \/ i = 1
       \/ pat[i-1].t \in {"optdot", "plus"}

\* the pattern matches a prefix of s (backtracking over the optional dots)
RECURSIVE MatchHere(_, _)
MatchHere(pat, s) ==
  IF pat = <<>> THEN TRUE
  ELSE
    LET it == Head(pat) IN
    CASE it.t = "lit" ->
           /\ s # <<>> /\ Head(s) = it.c
           /\ MatchHere(Tail(pat), Tail(s))
      [] it.t = "any" ->
           /\ s # <<>>
           /\ MatchHere(Tail(pat), Tail(s))
      [] it.t = "optdot" ->
           \/ /\ s # <<>> /\ Head(s) = "."
              /\ MatchHere(Tail(pat), Tail(s))
           \/ MatchHere(Tail(pat), s)
      [] OTHER -> FALSE

\* RegExp.prototype.test: an unanchored search
regexTest(pat, s) ==
  \E k \in 1..(Len(s) + 1) : MatchHere(pat, SubSeq(s, k, Len(s)))

\* the pattern compareEmail compiles for a gmail first address
gmailPattern(split) ==
  regexAddress(replaceFirstDot(split[1], <<>>)) \o regexDomain(split[2])

\* compareEmail throws (the RegExp constructor does)
compareEmailThrows(email1, email2, UNIQUE_GMAIL) ==
  /\ UNIQUE_GMAIL
  /\ emailSplit(toLower(email1)) # <<>>
  /\ RegExpThrows(gmailPattern(emailSplit(toLower(email1))))

\* compareEmail's value when it returns
compareEmail(email1, email2, UNIQUE_GMAIL) ==
  IF UNIQUE_GMAIL /\ emailSplit(toLower(email1)) # <<>>
    THEN regexTest(gmailPattern(emailSplit(toLower(email1))), toLower(email2))
    ELSE toLower(email1) = toLower(email2)

(***************************************************************************)
(* Email strings of the model, by name, and their characters.  "" is the   *)
(* absent email (null in the table, undefined in a record).                *)
(***************************************************************************)
XDomain == <<"@","x",".","c","o","m">>

Text(name) ==
  CASE name = "" -> <<>>
    [] name = "m@x.com" -> <<"m">> \o XDomain
    [] name = "r@x.com" -> <<"r">> \o XDomain
    [] name = "R@x.com" -> <<"R">> \o XDomain
    [] name = "n@x.com" -> <<"n">> \o XDomain
    [] name = "a+b@gmail.com" -> <<"a","+","b">> \o GmailDomain

EmailNames == {"m@x.com", "r@x.com", "R@x.com", "n@x.com", "a+b@gmail.com"}

\* String.prototype.toLowerCase, on names
toLowerCase(name) ==
  IF name = "" THEN ""
  ELSE CHOOSE n \in EmailNames : Text(n) = toLower(Text(name))

(***************************************************************************)
(* Constants of ../../constants (not part of this file).                   *)
(***************************************************************************)
PROJECT_MEMBER_ROLE == {"customer", "manager", "copilot"}
CUSTOMER == "customer"
COPILOT == "copilot"
PROJECT_MEMBER_MANAGER_ROLES == {"manager"}
CONNECT_ADMIN == "Connect Admin"
COPILOT_MANAGER == "Connect Copilot Manager"
MANAGER_ROLES == {"Connect Manager", CONNECT_ADMIN, COPILOT_MANAGER}
PENDING == "pending"
REQUESTED == "requested"

(***************************************************************************)
(* The environment: the project's members, the identity service.           *)
(***************************************************************************)
Users == {1, 2, 3}
\* req.context.currentProjectMembers, as user ids
Members == {1}
\* what util.getUserRoles answers for each user
UserRoles == (1 :> {CONNECT_ADMIN}) @@ (2 :> {"Connect Manager"}) @@ (3 :> {"Topcoder User"})
\* the registered accounts the identity service knows
Directory == << [id |-> 1, email |-> "m@x.com"], [id |-> 3, email |-> "R@x.com"] >>

\* util.hasRoles(req, roles) on the caller's roles; util.hasIntersection
hasIntersection(a, b) == a \cap b # {}
hasRoles(caller, roles) == hasIntersection(caller, roles)

\* util.lookupUserEmails, when it answers: the accounts whose email is one of
\* the requested ones (the identity service compares case-insensitively)
lookupUserEmails(emails) ==
  SelectSeq(Directory,
            LAMBDA u : \E i \in 1..Len(emails) :
                         toLower(Text(emails[i])) = toLower(Text(u.email)))

\* models.ProjectMemberInvite.getPendingInvitesForProject: the rows of the
\* project whose status is pending (a bag: the table holds duplicates)
getPendingInvitesForProject(table) ==
  LET rows == {r \in DOMAIN table : r.status = PENDING}
  IN  [r \in rows |-> table[r]]

(***************************************************************************)
(* Requests.  An array the request carries is never empty (Joi min(1)), so *)
(* an empty sequence here is an absent array.                              *)
(***************************************************************************)
RequestEmails == {"m@x.com", "r@x.com", "n@x.com", "a+b@gmail.com"}
Callers == {{"Topcoder User"}, {"Connect Manager"}, {CONNECT_ADMIN}, {COPILOT_MANAGER}}

Requests ==
  {r \in [userIds : SeqsUpTo(Users, MaxCandidates),
          emails  : SeqsUpTo(RequestEmails, MaxCandidates),
          role    : PROJECT_MEMBER_ROLE,
          caller  : Callers] :
     Len(r.userIds) + Len(r.emails) <= MaxCandidates}

Procs == {1, 2}

VARIABLES
  comparison, \* one call of compareEmail: its arguments and what it gave
  UNIQUE_GMAIL_VALIDATION, \* config.get('UNIQUE_GMAIL_VALIDATION')
  table,      \* the invite table of the project: a bag of rows
  calls,      \* invocations started so far
  pc,         \* pc[p]: where invocation p of the handler is
  req,        \* req[p]: the request as received
  invite,     \* invite[p]: req.body.param, which the handler edits in place
  failed,     \* failed[p]: the failure entries accumulated
  promises,   \* promises[p]: the role lookups, in the order they were started
  invites,    \* invites[p]: the pending invites as read
  creates,    \* creates[p]: invitePromises, each with the row it inserts
  lookup,     \* lookup[p]: the bulk email lookup: none, pending, ok, rejected
  threw,      \* threw[p]: the email callback threw and the catch ran
  res,        \* res[p]: what the handler answered (response or next(err))
  effects,    \* effects[p]: the calls to collaborators made so far
  prev        \* the finished invocation a repeated request is compared with

vars == <<comparison, UNIQUE_GMAIL_VALIDATION, table, calls, pc, req, invite, failed,
          promises, invites, creates, lookup, threw, res, effects, prev>>

NoRequest == [userIds |-> <<>>, emails |-> <<>>, role |-> CUSTOMER, caller |-> {}]
NoInvite == [hasUserIds |-> FALSE, userIds |-> <<>>, hasEmails |-> FALSE,
             emails |-> <<>>, role |-> CUSTOMER]
NoResponse == [kind |-> "none", status |-> 0, success |-> <<>>,
               hasFailed |-> FALSE, failed |-> <<>>]
NoEffects == [roleLookups |-> 0, emailLookups |-> 0, inviteReads |-> 0,
              events |-> <<>>, published |-> <<>>, emailTasks |-> <<>>]
NoPrev == [kept |-> FALSE, req |-> NoRequest, res |-> NoResponse,
           lookup |-> "none", created |-> <<>>]

NoComparison == [email1 |-> <<>>, email2 |-> <<>>, options |-> FALSE, result |-> "none"]

\* a rolesList entry that is undefined
Undefined == [def |-> FALSE, roles |-> {}]

\* a row of the table / the data of a create (0 and "": no userId, no email)
Row(userId, email, role, status) ==
  [userId |-> userId, email |-> email, role |-> role, status |-> status]

failEmail(email, message) == [userId |-> 0, email |-> email, message |-> message]
failUser(userId, message) == [userId |-> userId, email |-> "", message |-> message]

(***************************************************************************)
(* The handler's computations, in the order of the code.                   *)
(***************************************************************************)
\* _.remove(invite.userIds, u => _.some(members, m => m.userId === u))
removeMembers(userIds) == SelectSeq(userIds, LAMBDA u : u \notin Members)

\* (mutant) the gate checks the manager-tier project roles only, so a caller
\* without privilege may ask for the copilot role
roleGateForbids_managerTierOnly(r) ==
  ~hasRoles(r.caller, MANAGER_ROLES) /\ r.role \in PROJECT_MEMBER_MANAGER_ROLES

\* the request-level gate (the 403 of the synchronous prefix)
roleGateForbids(r) ==
  ~hasRoles(r.caller, MANAGER_ROLES) /\ r.role # CUSTOMER

\* promises.push(util.getUserRoles(userId, ...)) for every remaining user id
\* (nth records the order in which the lookups resolve: 0 is not yet)
rolePromises(inv) ==
  IF inv.hasUserIds /\ inv.role \in PROJECT_MEMBER_MANAGER_ROLES
    THEN [i \in 1..Len(inv.userIds) |->
            [userId |-> inv.userIds[i], st |-> "pending", roles |-> {}, nth |-> 0]]
    ELSE <<>>

\* (mutant) the restriction tests the role the wrong way round
emailRoleFailures_wrongRole(inv) ==
  IF inv.hasEmails /\ inv.role = CUSTOMER
    THEN [i \in 1..Len(inv.emails) |->
            failEmail(inv.emails[i], "Emails can only be used for customer")]
    ELSE <<>>

\* email invites can only be used for the customer role
emailRoleFailures(inv) ==
  IF inv.hasEmails /\ inv.role # CUSTOMER
    THEN [i \in 1..Len(inv.emails) |->
            failEmail(inv.emails[i], "Emails can only be used for customer")]
    ELSE <<>>

\* (mutant) the results are listed in the order the lookups resolved
rolesListOf_inCompletionOrder(ps) ==
  IF ps = <<>> THEN <<Undefined>>
  ELSE [i \in 1..Len(ps) |->
          LET j == CHOOSE j \in 1..Len(ps) : ps[j].nth = i
          IN  [def |-> TRUE, roles |-> ps[j].roles]]

\* what Promise.all(promises) resolves to; an empty list was replaced by
\* [Promise.resolve()], which resolves to [undefined]
rolesListOf(ps) ==
  IF ps = <<>> THEN <<Undefined>>
  ELSE [i \in 1..Len(ps) |-> [def |-> TRUE, roles |-> ps[i].roles]]

\* _.zip(a, b): as long as the longer, padded with undefined
zip(userIds, rolesList) ==
  LET n == IF Len(userIds) > Len(rolesList) THEN Len(userIds) ELSE Len(rolesList)
  IN  [i \in 1..n |->
         [userId |-> IF i <= Len(userIds) THEN userIds[i] ELSE 0,
          roles  |-> IF i <= Len(rolesList) THEN rolesList[i] ELSE Undefined]]

\* (mutant) the negation of the intersection test is lost
isForbidden_notNegated(roles) == roles.def /\ hasIntersection(MANAGER_ROLES, roles.roles)

\* roles && !util.hasIntersection(MANAGER_ROLES, roles)
isForbidden(roles) == roles.def /\ ~hasIntersection(MANAGER_ROLES, roles.roles)

\* forbidUserList of the per-candidate gate
forbidUserList(userIds, rolesList) ==
  LET bad == SelectSeq(zip(userIds, rolesList), LAMBDA d : isForbidden(d.roles))
  IN  [i \in 1..Len(bad) |-> bad[i].userId]

\* the per-candidate gate applies
gateApplies(inv) == inv.hasUserIds /\ inv.role \in PROJECT_MEMBER_MANAGER_ROLES

\* (mutant) only the admin invites a copilot directly
inviteStatus_adminOnly(role, caller) ==
  IF role # COPILOT \/ hasRoles(caller, {CONNECT_ADMIN})
    THEN PENDING
    ELSE REQUESTED

\* the status of the new invites
inviteStatus(role, caller) ==
  IF role # COPILOT \/ hasRoles(caller, {CONNECT_ADMIN, COPILOT_MANAGER})
    THEN PENDING
    ELSE REQUESTED

\* i.userId === u for some pending invite i
invitedUser(snapshot, u) == \E i \in DOMAIN snapshot : i.userId = u

\* _.remove(invite.userIds, u => _.some(invites, i => i.userId === u))
removeInvitedUserIds(userIds, snapshot) ==
  SelectSeq(userIds, LAMBDA u : ~invitedUser(snapshot, u))

\* one create per remaining user id
userIdCreates(userIds, role, status) ==
  [i \in 1..Len(userIds) |->
     [data |-> Row(userIds[i], "", role, status), st |-> "pending"]]

(***************************************************************************)
(* The callback of util.lookupUserEmails (the email path).                 *)
(***************************************************************************)
\* the emails of the request that no returned account has
nonExistentUserEmails(emails, existentUsers) ==
  SelectSeq(emails,
            LAMBDA e : ~\E j \in 1..Len(existentUsers) :
                          compareEmail(Text(existentUsers[j].email), Text(e), FALSE))

\* _.remove(existentUsersWithNumberId, user => _.some(invites, i => i.userId === user.id))
newExistentUsers(existentUsers, snapshot) ==
  SelectSeq(existentUsers, LAMBDA u : ~invitedUser(snapshot, u.id))

\* one create per remaining account: by userId and lower-cased email
existentUserCreates(users, role, status) ==
  [i \in 1..Len(users) |->
     [data |-> Row(users[i].id, toLowerCase(users[i].email), role, status),
      st |-> "pending"]]

\* the pending invites whose email makes compareEmail throw
throwingInvites(snapshot, cfg) ==
  {i \in DOMAIN snapshot : compareEmailThrows(Text(i.email), <<>>, cfg)}

\* _.some(invites, i => compareEmail(i.email, email, cfg)), when it returns
emailInvited(snapshot, cfg, e) ==
  \E i \in DOMAIN snapshot \ throwingInvites(snapshot, cfg) :
    compareEmail(Text(i.email), Text(e), cfg)

\* the second _.remove of the callback: the emails not invited yet
newEmails(emails, snapshot, cfg) ==
  SelectSeq(emails, LAMBDA e : ~emailInvited(snapshot, cfg, e))

\* The order of the rows getPendingInvitesForProject returns is not fixed and
\* _.some stops at the first match, so with a throwing row in the snapshot
\* the second _.remove throws unless, for every email, a matching row comes
\* first: it may throw as soon as there is an email to test and a throwing
\* row, and it may return when every email has a matching row.
removeMayThrow(emails, snapshot, cfg) ==
  emails # <<>> /\ throwingInvites(snapshot, cfg) # {}

removeMayReturn(emails, snapshot, cfg) ==
  \/ throwingInvites(snapshot, cfg) = {}
  \/ \A k \in 1..Len(emails) : emailInvited(snapshot, cfg, emails[k])

\* one create per remaining email: by lower-cased email only
emailCreates(emails, role, status) ==
  [i \in 1..Len(emails) |->
     [data |-> Row(0, toLowerCase(emails[i]), role, status), st |-> "pending"]]

\* the catch of the email path: one failure entry per email of the request
emailLookupFailures(emails, message) ==
  [i \in 1..Len(emails) |-> failEmail(emails[i], message)]

\* the per-candidate failures of the gate
forbiddenFailures(ids) ==
  [i \in 1..Len(ids) |->
     failUser(ids[i], "cannot be added with a Manager role to the project")]

\* invite.userIds without the forbidden ones
withoutForbidden(userIds, forbid) ==
  SelectSeq(userIds, LAMBDA u : u \notin Range(forbid))

\* the rows of the creates that succeeded, in the order of invitePromises
createdRows(cs) ==
  LET ok == SelectSeq(cs, LAMBDA c : c.st = "ok")
  IN  [i \in 1..Len(ok) |-> ok[i].data]

\* if (v.email && !v.userId && v.status === INVITE_STATUS.PENDING)
needsInviteEmail(v) == v.email # "" /\ v.userId = 0 /\ v.status = PENDING

(***************************************************************************)
(* The state machine.                                                      *)
(***************************************************************************)
Init ==
  /\ comparison = NoComparison
  /\ UNIQUE_GMAIL_VALIDATION \in BOOLEAN
  /\ table = EmptyBag
  /\ calls = 0
  /\ pc = [p \in Procs |-> "idle"]
  /\ req = [p \in Procs |-> NoRequest]
  /\ invite = [p \in Procs |-> NoInvite]
  /\ failed = [p \in Procs |-> <<>>]
  /\ promises = [p \in Procs |-> <<>>]
  /\ invites = [p \in Procs |-> EmptyBag]
  /\ creates = [p \in Procs |-> <<>>]
  /\ lookup = [p \in Procs |-> "none"]
  /\ threw = [p \in Procs |-> FALSE]
  /\ res = [p \in Procs |-> NoResponse]
  /\ effects = [p \in Procs |-> NoEffects]
  /\ prev = NoPrev

\* next(err)
nextErr(status) == [NoResponse EXCEPT !.kind = "error", !.status = status]

\* The synchronous prefix of the handler: the two request checks, the removal
\* of the members, the start of the role lookups, the email-role restriction.
Start(p, r) ==
  /\ pc[p] = "idle"
  /\ calls < MaxCalls
  /\ prev.kept => r = prev.req
  /\ calls' = calls + 1
  /\ req' = [req EXCEPT ![p] = r]
  /\ UNCHANGED <<comparison, UNIQUE_GMAIL_VALIDATION, table, invites, creates, lookup,
                 threw, prev>>
  /\ IF r.userIds = <<>> /\ r.emails = <<>>
       THEN /\ pc' = [pc EXCEPT ![p] = "error"]
            /\ res' = [res EXCEPT ![p] = nextErr(400)]
            /\ UNCHANGED <<invite, failed, promises, effects>>
     ELSE IF roleGateForbids(r)
       THEN /\ pc' = [pc EXCEPT ![p] = "error"]
            /\ res' = [res EXCEPT ![p] = nextErr(403)]
            /\ UNCHANGED <<invite, failed, promises, effects>>
     ELSE
       LET inv0 == [hasUserIds |-> r.userIds # <<>>,
                    userIds |-> removeMembers(r.userIds),
                    hasEmails |-> r.emails # <<>>,
                    emails |-> r.emails,
                    role |-> r.role]
           restricted == inv0.hasEmails /\ inv0.role # CUSTOMER
       IN  /\ promises' = [promises EXCEPT ![p] = rolePromises(inv0)]
           /\ failed' = [failed EXCEPT ![p] = emailRoleFailures(inv0)]
           \* delete invite.emails
           /\ invite' = [invite EXCEPT ![p] =
                           IF restricted
                             THEN [inv0 EXCEPT !.hasEmails = FALSE, !.emails = <<>>]
                             ELSE inv0]
           /\ effects' = [effects EXCEPT ![p].roleLookups = Len(rolePromises(inv0))]
           /\ pc' = [pc EXCEPT ![p] = "roles"]
           /\ UNCHANGED res

\* one util.getUserRoles call resolves
RoleLookupResolves(p, i) ==
  /\ pc[p] = "roles"
  /\ i \in 1..Len(promises[p])
  /\ promises[p][i].st = "pending"
  /\ promises' = [promises EXCEPT ![p][i] =
                    [@ EXCEPT !.st = "ok",
                              !.roles = UserRoles[promises[p][i].userId],
                              !.nth = 1 + Cardinality({j \in 1..Len(promises[p]) :
                                                         promises[p][j].st = "ok"})]]
  /\ UNCHANGED <<comparison, UNIQUE_GMAIL_VALIDATION, table, calls, pc, req, invite, failed,
                 invites, creates, lookup, threw, res, effects, prev>>

\* (mutant) a rejected role lookup is swallowed: the handler goes on waiting
RoleLookupRejects_swallowed(p, i) ==
  /\ pc[p] = "roles"
  /\ i \in 1..Len(promises[p])
  /\ promises[p][i].st = "pending"
  /\ promises' = [promises EXCEPT ![p][i].st = "rejected"]
  /\ UNCHANGED <<comparison, UNIQUE_GMAIL_VALIDATION, table, calls, pc, req, invite, failed,
                 invites, creates, lookup, threw, res, effects, prev>>

\* one util.getUserRoles call rejects: Promise.all rejects with it, the two
\* then-callbacks are skipped and the final catch calls next(err)
RoleLookupRejects(p, i) ==
  /\ pc[p] = "roles"
  /\ i \in 1..Len(promises[p])
  /\ promises[p][i].st = "pending"
  /\ promises' = [promises EXCEPT ![p][i].st = "rejected"]
  /\ pc' = [pc EXCEPT ![p] = "error"]
  /\ res' = [res EXCEPT ![p] = nextErr(500)]
  /\ UNCHANGED <<comparison, UNIQUE_GMAIL_VALIDATION, table, calls, req, invite, failed,
                 invites, creates, lookup, threw, effects, prev>>

\* Promise.all(promises).then(rolesList => ...): the per-candidate gate, then
\* the call of getPendingInvitesForProject
RolesJoined(p) ==
  /\ pc[p] = "roles"
  /\ \A i \in 1..Len(promises[p]) : promises[p][i].st = "ok"
  /\ LET inv == invite[p]
         forbid == IF gateApplies(inv)
                     THEN forbidUserList(inv.userIds, rolesListOf(promises[p]))
                     ELSE <<>>
     IN  /\ failed' = [failed EXCEPT ![p] = @ \o forbiddenFailures(forbid)]
         /\ invite' = [invite EXCEPT ![p].userIds = withoutForbidden(@, forbid)]
  /\ effects' = [effects EXCEPT ![p].inviteReads = @ + 1]
  /\ pc' = [pc EXCEPT ![p] = "invites"]
  /\ UNCHANGED <<comparison, UNIQUE_GMAIL_VALIDATION, table, calls, req, promises, invites,
                 creates, lookup, threw, res, prev>>

\* getPendingInvitesForProject rejects: next(err)
InvitesReadFails(p) ==
  /\ pc[p] = "invites"
  /\ pc' = [pc EXCEPT ![p] = "error"]
  /\ res' = [res EXCEPT ![p] = nextErr(500)]
  /\ UNCHANGED <<comparison, UNIQUE_GMAIL_VALIDATION, table, calls, req, invite, failed,
                 promises, invites, creates, lookup, threw, effects, prev>>

\* getPendingInvitesForProject(projectId).then(invites => ...): the template
\* of the new rows and the synchronous part of buildCreateInvitePromises (the
\* creates by user id are started, then the email lookup if emails remain)
InvitesRead(p) ==
  /\ pc[p] = "invites"
  /\ LET snapshot == getPendingInvitesForProject(table)
         inv == invite[p]
         status == inviteStatus(inv.role, req[p].caller)
         ids == IF inv.hasUserIds
                  THEN removeInvitedUserIds(inv.userIds, snapshot)
                  ELSE inv.userIds
     IN  /\ invites' = [invites EXCEPT ![p] = snapshot]
         /\ invite' = [invite EXCEPT ![p].userIds = ids]
         /\ creates' = [creates EXCEPT ![p] =
                          IF inv.hasUserIds
                            THEN userIdCreates(ids, inv.role, status)
                            ELSE <<>>]
         /\ IF inv.hasEmails
              THEN /\ lookup' = [lookup EXCEPT ![p] = "pending"]
                   /\ effects' = [effects EXCEPT ![p].emailLookups = @ + 1]
                   /\ pc' = [pc EXCEPT ![p] = "emailLookup"]
              ELSE /\ pc' = [pc EXCEPT ![p] = "creating"]
                   /\ UNCHANGED <<lookup, effects>>
  /\ UNCHANGED <<comparison, UNIQUE_GMAIL_VALIDATION, table, calls, req, failed, promises,
                 threw, res, prev>>

\* util.lookupUserEmails resolves and its callback runs: the creates of the
\* registered accounts are started first, then those of the remaining emails;
\* if the second _.remove throws, the catch turns every email of the request
\* into a failure entry and returns the creates started so far
EmailLookupResolves(p, throws) ==
  /\ pc[p] = "emailLookup"
  /\ LET inv == invite[p]
         cfg == UNIQUE_GMAIL_VALIDATION
         status == inviteStatus(inv.role, req[p].caller)
         existentUsers == lookupUserEmails(inv.emails)
         nonExistent == nonExistentUserEmails(inv.emails, existentUsers)
         queued == creates[p] \o
                   existentUserCreates(newExistentUsers(existentUsers, invites[p]),
                                       inv.role, status)
     IN  IF throws
           THEN /\ removeMayThrow(nonExistent, invites[p], cfg)
                /\ creates' = [creates EXCEPT ![p] = queued]
                /\ failed' = [failed EXCEPT ![p] =
                                @ \o emailLookupFailures(inv.emails, "undefined")]
                /\ threw' = [threw EXCEPT ![p] = TRUE]
           ELSE /\ removeMayReturn(nonExistent, invites[p], cfg)
                /\ creates' = [creates EXCEPT ![p] =
                                 queued \o emailCreates(newEmails(nonExistent, invites[p], cfg),
                                                        inv.role, status)]
                /\ UNCHANGED <<failed, threw>>
  /\ lookup' = [lookup EXCEPT ![p] = "ok"]
  /\ pc' = [pc EXCEPT ![p] = "creating"]
  /\ UNCHANGED <<comparison, UNIQUE_GMAIL_VALIDATION, table, calls, req, invite, promises,
                 invites, res, effects, prev>>

\* (mutant) the rejection of the email lookup is not caught: next(err)
EmailLookupRejects_notCaught(p) ==
  /\ pc[p] = "emailLookup"
  /\ lookup' = [lookup EXCEPT ![p] = "rejected"]
  /\ pc' = [pc EXCEPT ![p] = "error"]
  /\ res' = [res EXCEPT ![p] = nextErr(500)]
  /\ UNCHANGED <<comparison, UNIQUE_GMAIL_VALIDATION, table, calls, req, invite, failed,
                 promises, invites, creates, threw, effects, prev>>

\* util.lookupUserEmails rejects: the catch turns every email of the request
\* into a failure entry and returns the creates started so far
EmailLookupRejects(p) ==
  /\ pc[p] = "emailLookup"
  /\ failed' = [failed EXCEPT ![p] =
                  @ \o emailLookupFailures(invite[p].emails, "statusText")]
  /\ lookup' = [lookup EXCEPT ![p] = "rejected"]
  /\ pc' = [pc EXCEPT ![p] = "creating"]
  /\ UNCHANGED <<comparison, UNIQUE_GMAIL_VALIDATION, table, calls, req, invite, promises,
                 invites, creates, threw, res, effects, prev>>

\* a create is under way from the moment it is pushed on invitePromises
createPending(p, k) ==
  /\ pc[p] \in {"emailLookup", "creating", "error"}
  /\ k \in 1..Len(creates[p])
  /\ creates[p][k].st = "pending"

\* models.ProjectMemberInvite.create(dataNew) resolves: the row is in the table
CreateResolves(p, k) ==
  /\ createPending(p, k)
  /\ creates' = [creates EXCEPT ![p][k].st = "ok"]
  /\ table' = table (+) SetToBag({creates[p][k].data})
  /\ UNCHANGED <<comparison, UNIQUE_GMAIL_VALIDATION, calls, pc, req, invite, failed,
                 promises, invites, lookup, threw, res, effects, prev>>

\* models.ProjectMemberInvite.create(dataNew) rejects: no row
CreateRejects(p, k) ==
  /\ createPending(p, k)
  /\ creates' = [creates EXCEPT ![p][k].st = "failed"]
  /\ UNCHANGED <<comparison, UNIQUE_GMAIL_VALIDATION, table, calls, pc, req, invite, failed,
                 promises, invites, lookup, threw, res, effects, prev>>

\* (mutant) the failure entries are left out of the answer
respond_successOnly(values, fs) ==
  [kind |-> "response", status |-> 201, success |-> values,
   hasFailed |-> FALSE, failed |-> <<>>]

\* res.status(403).json({success, failed}) or res.status(201).json({success})
respond(values, fs) ==
  IF Len(fs) # 0
    THEN [kind |-> "response", status |-> 403, success |-> values,
          hasFailed |-> TRUE, failed |-> fs]
    ELSE [kind |-> "response", status |-> 201, success |-> values,
          hasFailed |-> FALSE, failed |-> <<>>]

\* sendInviteEmail(req, projectId, v) is called: the task is under way
emailTask(v) == [invite |-> v, st |-> "started"]

\* (mutant) the join waits for the creates to settle, not to succeed: the
\* rows of those that did are announced
CreatesJoined_allSettled(p) ==
  /\ pc[p] = "creating"
  /\ \A k \in 1..Len(creates[p]) : creates[p][k].st # "pending"
  /\ LET values == createdRows(creates[p])
         mails == SelectSeq(values, needsInviteEmail)
     IN  effects' = [effects EXCEPT ![p].events = values,
                                    ![p].published = values,
                                    ![p].emailTasks =
                                       [k \in 1..Len(mails) |-> emailTask(mails[k])]]
  /\ pc' = [pc EXCEPT ![p] = "dispatched"]
  /\ UNCHANGED <<comparison, UNIQUE_GMAIL_VALIDATION, table, calls, req, invite, failed,
                 promises, invites, creates, lookup, threw, res, prev>>

\* models.sequelize.Promise.all(...) resolves: per created row the event, the
\* publication and (for an email-only pending row) the invitation email are
\* started; the values go on to the last then-callback
CreatesJoined(p) ==
  /\ pc[p] = "creating"
  /\ \A k \in 1..Len(creates[p]) : creates[p][k].st = "ok"
  /\ LET values == createdRows(creates[p])
         mails == SelectSeq(values, needsInviteEmail)
     IN  effects' = [effects EXCEPT ![p].events = values,
                                    ![p].published = values,
                                    ![p].emailTasks =
                                       [k \in 1..Len(mails) |-> emailTask(mails[k])]]
  /\ pc' = [pc EXCEPT ![p] = "dispatched"]
  /\ UNCHANGED <<comparison, UNIQUE_GMAIL_VALIDATION, table, calls, req, invite, failed,
                 promises, invites, creates, lookup, threw, res, prev>>

\* (mutant) the answer waits for the invitation emails and fails with them
Respond_awaitsEmail(p) ==
  /\ pc[p] = "dispatched"
  /\ \A k \in 1..Len(effects[p].emailTasks) : effects[p].emailTasks[k].st # "started"
  /\ IF \E k \in 1..Len(effects[p].emailTasks) : effects[p].emailTasks[k].st = "failed"
       THEN /\ res' = [res EXCEPT ![p] = nextErr(500)]
            /\ pc' = [pc EXCEPT ![p] = "error"]
       ELSE /\ res' = [res EXCEPT ![p] = respond(createdRows(creates[p]), failed[p])]
            /\ pc' = [pc EXCEPT ![p] = "responded"]
  /\ UNCHANGED <<comparison, UNIQUE_GMAIL_VALIDATION, table, calls, req, invite, failed,
                 promises, invites, creates, lookup, threw, effects, prev>>

\* the last then-callback: the answer, from the values and the failure entries
Respond(p) ==
  /\ pc[p] = "dispatched"
  /\ res' = [res EXCEPT ![p] = respond(createdRows(creates[p]), failed[p])]
  /\ pc' = [pc EXCEPT ![p] = "responded"]
  /\ UNCHANGED <<comparison, UNIQUE_GMAIL_VALIDATION, table, calls, req, invite, failed,
                 promises, invites, creates, lookup, threw, effects, prev>>

\* an invitation-email task is under way
emailTaskStarted(p, k) ==
  /\ pc[p] \in {"dispatched", "responded"}
  /\ k \in 1..Len(effects[p].emailTasks)
  /\ effects[p].emailTasks[k].st = "started"

\* sendInviteEmail: both reads resolve and createEvent is called
EmailTaskSends(p, k) ==
  /\ emailTaskStarted(p, k)
  /\ effects' = [effects EXCEPT ![p].emailTasks[k].st = "sent"]
  /\ UNCHANGED <<comparison, UNIQUE_GMAIL_VALIDATION, table, calls, pc, req, invite, failed,
                 promises, invites, creates, lookup, threw, res, prev>>

\* sendInviteEmail: a read rejects or the callback throws; the catch logs it
EmailTaskFails(p, k) ==
  /\ emailTaskStarted(p, k)
  /\ effects' = [effects EXCEPT ![p].emailTasks[k].st = "failed"]
  /\ UNCHANGED <<comparison, UNIQUE_GMAIL_VALIDATION, table, calls, pc, req, invite, failed,
                 promises, invites, creates, lookup, threw, res, prev>>

\* models.sequelize.Promise.all(...) rejects with the first create that did:
\* both then-callbacks are skipped and the final catch calls next(err)
CreatesFailed(p) ==
  /\ pc[p] = "creating"
  /\ \E k \in 1..Len(creates[p]) : creates[p][k].st = "failed"
  /\ pc' = [pc EXCEPT ![p] = "error"]
  /\ res' = [res EXCEPT ![p] = nextErr(500)]
  /\ UNCHANGED <<comparison, UNIQUE_GMAIL_VALIDATION, table, calls, req, invite, failed,
                 promises, invites, creates, lookup, threw, effects, prev>>

\* The invocation is over and nothing of it is under way: the next request
\* may come.  The environment either repeats the request it just made (the
\* finished invocation is kept to compare the repetition with) or does not.
Finish(p, keep) ==
  /\ pc[p] \in {"responded", "error"}
  /\ \A k \in 1..Len(creates[p]) : creates[p][k].st # "pending"
  /\ keep => calls < MaxCalls
  /\ prev' = IF keep
               THEN [kept |-> TRUE, req |-> req[p], res |-> res[p],
                     lookup |-> lookup[p], created |-> createdRows(creates[p])]
               ELSE NoPrev
  /\ pc' = [pc EXCEPT ![p] = "idle"]
  /\ req' = [req EXCEPT ![p] = NoRequest]
  /\ invite' = [invite EXCEPT ![p] = NoInvite]
  /\ failed' = [failed EXCEPT ![p] = <<>>]
  /\ promises' = [promises EXCEPT ![p] = <<>>]
  /\ invites' = [invites EXCEPT ![p] = EmptyBag]
  /\ creates' = [creates EXCEPT ![p] = <<>>]
  /\ lookup' = [lookup EXCEPT ![p] = "none"]
  /\ threw' = [threw EXCEPT ![p] = FALSE]
  /\ res' = [res EXCEPT ![p] = NoResponse]
  /\ effects' = [effects EXCEPT ![p] = NoEffects]
  /\ UNCHANGED <<comparison, UNIQUE_GMAIL_VALIDATION, table, calls>>

\* the steps of invocation p
Step(p) ==
  \/ \E r \in Requests : Start(p, r)
  \/ \E i \in 1..MaxCandidates : RoleLookupResolves(p, i)
  \/ \E i \in 1..MaxCandidates : RoleLookupRejects(p, i)
  \/ RolesJoined(p)
  \/ InvitesRead(p)
  \/ InvitesReadFails(p)
  \/ \E throws \in BOOLEAN : EmailLookupResolves(p, throws)
  \/ EmailLookupRejects(p)
  \/ \E k \in 1..MaxCandidates : CreateResolves(p, k)
  \/ \E k \in 1..MaxCandidates : CreateRejects(p, k)
  \/ CreatesJoined(p)
  \/ CreatesFailed(p)
  \/ Respond(p)
  \/ \E k \in 1..MaxCandidates : EmailTaskSends(p, k)
  \/ \E k \in 1..MaxCandidates : EmailTaskFails(p, k)
  \/ \E keep \in BOOLEAN : Finish(p, keep)

\* one invocation at a time
Next == Step(1)

Spec == Init /\ [][Next]_vars

(***************************************************************************)
(* The handler on a project that already holds an invite by email only,    *)
(* sent by an earlier invocation to an address that had no account then    *)
(* and has one now.                                                        *)
(***************************************************************************)
\* the row lines 115-119 stored for r@x.com before user 3 registered
EarlierEmailInvite == Row(0, "r@x.com", CUSTOMER, PENDING)

InitEarlierInvite ==
  /\ comparison = NoComparison
  /\ UNIQUE_GMAIL_VALIDATION \in BOOLEAN
  /\ table = SetToBag({EarlierEmailInvite})
  /\ calls = MaxCalls - 1
  /\ pc = [p \in Procs |-> "idle"]
  /\ req = [p \in Procs |-> NoRequest]
  /\ invite = [p \in Procs |-> NoInvite]
  /\ failed = [p \in Procs |-> <<>>]
  /\ promises = [p \in Procs |-> <<>>]
  /\ invites = [p \in Procs |-> EmptyBag]
  /\ creates = [p \in Procs |-> <<>>]
  /\ lookup = [p \in Procs |-> "none"]
  /\ threw = [p \in Procs |-> FALSE]
  /\ res = [p \in Procs |-> NoResponse]
  /\ effects = [p \in Procs |-> NoEffects]
  /\ prev = NoPrev

SpecEarlierInvite == InitEarlierInvite /\ [][Next]_vars

(***************************************************************************)
(* Two invocations for the same project at the same time: the steps of one *)
(* interleave with the steps of the other at every asynchronous boundary.  *)
(* The requests name one candidate each, the same one in both.             *)
(***************************************************************************)
OverlapRequests ==
  { [userIds |-> <<2>>, emails |-> <<>>, role |-> "manager", caller |-> {CONNECT_ADMIN}],
    [userIds |-> <<>>, emails |-> <<"n@x.com">>, role |-> CUSTOMER,
     caller |-> {CONNECT_ADMIN}] }

NextOverlap ==
  \E p \in Procs :
    \/ \E r \in OverlapRequests : Start(p, r)
    \/ \E i \in 1..MaxCandidates : RoleLookupResolves(p, i)
    \/ \E i \in 1..MaxCandidates : RoleLookupRejects(p, i)
    \/ RolesJoined(p)
    \/ InvitesRead(p)
    \/ InvitesReadFails(p)
    \/ \E throws \in BOOLEAN : EmailLookupResolves(p, throws)
    \/ EmailLookupRejects(p)
    \/ \E k \in 1..MaxCandidates : CreateResolves(p, k)
    \/ \E k \in 1..MaxCandidates : CreateRejects(p, k)
    \/ CreatesJoined(p)
    \/ CreatesFailed(p)
    \/ Respond(p)
    \/ \E k \in 1..MaxCandidates : EmailTaskSends(p, k)
    \/ \E k \in 1..MaxCandidates : EmailTaskFails(p, k)
    \/ \E keep \in BOOLEAN : Finish(p, keep)

SpecOverlap == Init /\ [][NextOverlap]_vars

(***************************************************************************)
(* compareEmail on its own: the addresses are drawn, the function is       *)
(* called once, its result is kept.                                        *)
(***************************************************************************)
\* the characters the local parts are made of
LocalChars == {"a", "b", "."}

\* the local parts Joi's email() lets through: no dot first, last or doubled
LocalParts ==
  {l \in SeqsUpTo(LocalChars, MaxLocalLen) :
     /\ l # <<>>
     /\ l[1] # "." /\ l[Len(l)] # "."
     /\ \A i \in 1..(Len(l) - 1) : ~(l[i] = "." /\ l[i+1] = ".")}

\* an address as a client may write it: in capitals
LowerToUpper == ("a" :> "A") @@ ("b" :> "B")
toUpper(s) ==
  [i \in 1..Len(s) |-> IF s[i] \in DOMAIN LowerToUpper THEN LowerToUpper[s[i]] ELSE s[i]]

GmailDomains == {GmailDomain, GooglemailDomain}

\* the first argument: the email of a stored invite (stored lower-cased)
FirstAddresses == {l \o d : l \in LocalParts, d \in GmailDomains}
\* the second argument: an email of the request
SecondAddresses ==
  FirstAddresses \cup {toUpper(l) \o d : l \in LocalParts, d \in GmailDomains}

InitCompare ==
  /\ comparison \in [email1 : FirstAddresses, email2 : SecondAddresses,
                     options : BOOLEAN, result : {"none"}]
  /\ UNIQUE_GMAIL_VALIDATION = FALSE
  /\ table = EmptyBag
  /\ calls = 0
  /\ pc = [p \in Procs |-> "idle"]
  /\ req = [p \in Procs |-> NoRequest]
  /\ invite = [p \in Procs |-> NoInvite]
  /\ failed = [p \in Procs |-> <<>>]
  /\ promises = [p \in Procs |-> <<>>]
  /\ invites = [p \in Procs |-> EmptyBag]
  /\ creates = [p \in Procs |-> <<>>]
  /\ lookup = [p \in Procs |-> "none"]
  /\ threw = [p \in Procs |-> FALSE]
  /\ res = [p \in Procs |-> NoResponse]
  /\ effects = [p \in Procs |-> NoEffects]
  /\ prev = NoPrev

\* compareEmail(email1, email2, options) is called
CallCompareEmail ==
  /\ comparison.result = "none"
  /\ comparison' =
       [comparison EXCEPT !.result =
          IF compareEmailThrows(comparison.email1, comparison.email2, comparison.options)
            THEN "throws"
          ELSE IF compareEmail(comparison.email1, comparison.email2, comparison.options)
            THEN "true"
          ELSE "false"]
  /\ UNCHANGED <<UNIQUE_GMAIL_VALIDATION, table, calls, pc, req, invite, failed,
                 promises, invites, creates, lookup, threw, res, effects, prev>>

NextCompare == CallCompareEmail

SpecCompare == InitCompare /\ [][NextCompare]_vars
(***************************************************************************)
(* Vocabulary of the properties.                                           *)
(***************************************************************************)
\* invocation p answered with a body
Responded(p) == pc[p] = "responded"

\* a failure entry is about the identity of a row (its user id or its email)
AboutRow(f, row) ==
  \/ f.userId # 0 /\ f.userId = row.userId
  \/ f.email # "" /\ row.email # "" /\ toLower(Text(f.email)) = toLower(Text(row.email))

\* two rows are invites of the same identity
SameIdentity(r1, r2) ==
  \/ r1.userId # 0 /\ r1.userId = r2.userId
  \/ r1.email # "" /\ r2.email # "" /\ toLower(Text(r1.email)) = toLower(Text(r2.email))

\* C1: Idempotence.  When a finished invocation that answered and created
\* pending invites is repeated with the identical request, and the email
\* lookup is answered as the first time, the repetition creates no row and
\* reports no failure entry about an identity the first invocation invited.
C1_Idempotence ==
  \A p \in Procs :
    ( /\ Responded(p)
      /\ prev.kept
      /\ req[p] = prev.req
      /\ prev.res.kind = "response"
      /\ prev.created # <<>>
      /\ \A i \in 1..Len(prev.created) : prev.created[i].status = PENDING
      /\ lookup[p] = prev.lookup )
    => /\ creates[p] = <<>>
       /\ \A i \in 1..Len(res[p].failed) : \A j \in 1..Len(prev.created) :
            ~AboutRow(res[p].failed[i], prev.created[j])

\* C2: One invocation never creates two rows for the same user id or the
\* same email, whatever the request lists.
C2_NoDuplicateInvite ==
  \A p \in Procs :
    \A i, j \in 1..Len(creates[p]) :
      i # j => ~SameIdentity(creates[p][i].data, creates[p][j].data)

\* C7: In a completed invocation no identity is both in a created row and in
\* a failure entry.
C7_CreatedXorFailed ==
  \A p \in Procs :
    Responded(p) =>
      \A i \in 1..Len(res[p].success) : \A j \in 1..Len(res[p].failed) :
        ~AboutRow(res[p].failed[j], res[p].success[i])

\* C8: No row is ever created for a user of the membership snapshot.
C8_NoInviteForMember ==
  \A p \in Procs :
    \A k \in 1..Len(creates[p]) : creates[p][k].data.userId \notin Members

\* invocation p has begun
Started(p) == pc[p] # "idle"

\* the request names a candidate (an InviteRequest of the data model)
HasCandidates(r) == r.userIds # <<>> \/ r.emails # <<>>

\* the caller holds a manager-tier privilege
ManagerCaller(r) == r.caller \cap MANAGER_ROLES # {}

\* the user ids of a sequence of rows, the emails of a sequence of entries
UserIdsOf(rows) == [i \in 1..Len(rows) |-> rows[i].userId]
EmailsOf(entries) == [i \in 1..Len(entries) |-> entries[i].email]

\* the user-id candidates of p's request that are neither members nor, in
\* the pending invites p read, invited, and that a manager-tier role may be
\* given to when the request asks for one
ExpectedUserIds(p) ==
  SelectSeq(req[p].userIds,
            LAMBDA u : /\ u \notin Members
                       /\ ~\E i \in DOMAIN invites[p] : i.userId = u
                       /\ req[p].role \in PROJECT_MEMBER_MANAGER_ROLES
                            => UserRoles[u] \cap MANAGER_ROLES # {})

\* C3: Request-level role gate.  When the caller of a request that names a
\* candidate holds no manager-tier privilege and the role is not customer,
\* the invocation is in its 403 error in every state after it began: no role
\* lookup, no email lookup, no read of the pending invites, no create, no
\* notification, no failure entry and no body.
C3_RoleGate ==
  \A p \in Procs :
    (Started(p) /\ HasCandidates(req[p]) /\ ~ManagerCaller(req[p])
       /\ req[p].role # CUSTOMER)
    => /\ pc[p] = "error"
       /\ res[p] = [NoResponse EXCEPT !.kind = "error", !.status = 403]
       /\ effects[p] = NoEffects
       /\ promises[p] = <<>>
       /\ lookup[p] = "none"
       /\ invites[p] = EmptyBag
       /\ creates[p] = <<>>
       /\ failed[p] = <<>>

C3_Witness ==
  /\ pc[1] = "error"
  /\ res[1].status = 403
  /\ ~ManagerCaller(req[1])
  /\ req[1].role = "copilot"
  /\ req[1].userIds # <<>> /\ req[1].emails # <<>>

\* C4: Per-candidate authorization.  In an invocation of a request for a
\* manager-tier role, once the role lookups are joined: a lookup was made for
\* exactly the user-id candidates that are not members, each got the role set
\* of its own user, each candidate whose set misses the manager roles has a
\* failure entry and no create, each whose set meets them has no failure
\* entry, and in the answer has a row unless a pending invite of it was read.
C4_PerCandidateGate ==
  \A p \in Procs :
    (req[p].role \in PROJECT_MEMBER_MANAGER_ROLES /\ req[p].userIds # <<>>
       /\ effects[p].inviteReads > 0)
    => /\ [j \in 1..Len(promises[p]) |-> promises[p][j].userId]
            = SelectSeq(req[p].userIds, LAMBDA u : u \notin Members)
       /\ \A j \in 1..Len(promises[p]) :
            LET u == promises[p][j].userId
                roles == promises[p][j].roles
                hasCreate == \E k \in 1..Len(creates[p]) : creates[p][k].data.userId = u
                hasRow == \E k \in 1..Len(res[p].success) : res[p].success[k].userId = u
                hasFailure == \E k \in 1..Len(failed[p]) : failed[p][k].userId = u
            IN  /\ promises[p][j].st = "ok"
                /\ roles = UserRoles[u]
                /\ roles \cap MANAGER_ROLES = {} => hasFailure /\ ~hasCreate
                /\ roles \cap MANAGER_ROLES # {} =>
                     /\ ~hasFailure
                     /\ Responded(p) =>
                          /\ res[p].failed = failed[p]
                          /\ hasRow <=> ~\E i \in DOMAIN invites[p] : i.userId = u

C4_Witness ==
  /\ Responded(1)
  /\ req[1].role = "manager"
  /\ req[1].userIds = <<3, 2>>
  /\ UserIdsOf(res[1].success) = <<2>>
  /\ \E k \in 1..Len(res[1].failed) : res[1].failed[k].userId = 3

\* C5: Role-lookup failure is fatal.  Once one role lookup of an invocation
\* has rejected, the invocation is in its error: no read of the pending
\* invites, no email lookup, no create, no notification, no publication, no
\* invitation email and no body.
C5_RoleLookupFatal ==
  \A p \in Procs :
    (\E i \in 1..Len(promises[p]) : promises[p][i].st = "rejected")
    => /\ pc[p] = "error"
       /\ res[p].kind = "error"
       /\ res[p].success = <<>> /\ ~res[p].hasFailed
       /\ creates[p] = <<>>
       /\ effects[p].inviteReads = 0
       /\ effects[p].emailLookups = 0
       /\ effects[p].events = <<>>
       /\ effects[p].published = <<>>
       /\ effects[p].emailTasks = <<>>

C5_Witness ==
  /\ pc[1] = "error"
  /\ \E i, j \in 1..Len(promises[1]) :
       promises[1][i].st = "rejected" /\ promises[1][j].st = "ok"

\* C6: Email-lookup failure is itemized.  Once the bulk email lookup of an
\* invocation has rejected, the failure entries are one per email of the
\* request, the creates are those of the user-id candidates and no other,
\* and the invocation answers 403 with both lists; it ends in an error only
\* if a create rejected.
C6_EmailLookupItemized ==
  \A p \in Procs :
    lookup[p] = "rejected"
    => /\ EmailsOf(failed[p]) = req[p].emails
       /\ \A j \in 1..Len(failed[p]) : failed[p][j].userId = 0
       /\ \A k \in 1..Len(creates[p]) : creates[p][k].data.email = ""
       /\ [k \in 1..Len(creates[p]) |-> creates[p][k].data.userId] = ExpectedUserIds(p)
       /\ pc[p] \in {"creating", "dispatched", "responded", "error"}
       /\ pc[p] = "error" => \E k \in 1..Len(creates[p]) : creates[p][k].st = "failed"
       /\ Responded(p) =>
            /\ res[p].kind = "response" /\ res[p].status = 403
            /\ res[p].hasFailed /\ res[p].failed = failed[p]
            /\ UserIdsOf(res[p].success) = ExpectedUserIds(p)

C6_Witness ==
  /\ Responded(1)
  /\ lookup[1] = "rejected"
  /\ req[1].emails # <<>>
  /\ res[1].success # <<>>
  /\ res[1].failed # <<>>

\* C9: Email-role restriction.  In an invocation of a request with emails, a
\* role other than customer and a caller who passes the request-level gate,
\* the failure entries about emails are one per email of the request, no
\* email lookup is made and no row with an email is created, and the answer
\* holds the rows of the user-id candidates that are to be invited.
C9_EmailRoleRestriction ==
  \A p \in Procs :
    (Started(p) /\ req[p].emails # <<>> /\ req[p].role # CUSTOMER
       /\ ManagerCaller(req[p]))
    => /\ SelectSeq(failed[p], LAMBDA f : f.email # "")
            = [i \in 1..Len(req[p].emails) |->
                 [userId |-> 0, email |-> req[p].emails[i],
                  message |-> "Emails can only be used for customer"]]
       /\ lookup[p] = "none"
       /\ effects[p].emailLookups = 0
       /\ \A k \in 1..Len(creates[p]) : creates[p][k].data.email = ""
       /\ Responded(p) =>
            /\ res[p].status = 403
            /\ res[p].failed = failed[p]
            /\ UserIdsOf(res[p].success) = ExpectedUserIds(p)

C9_Witness ==
  /\ Responded(1)
  /\ req[1].role = "manager"
  /\ req[1].emails # <<>>
  /\ req[1].userIds # <<>>
  /\ res[1].success # <<>>

\* C10: Response contract.  An invocation that answered has answered 201
\* with the success list only when no failure entry was accumulated, and 403
\* with the success list and the failure entries when one was; the success
\* list is the rows this invocation inserted, all of its creates.
C10_ResponseContract ==
  \A p \in Procs :
    Responded(p)
    => /\ res[p].kind = "response"
       /\ failed[p] = <<>> =>
            res[p].status = 201 /\ ~res[p].hasFailed /\ res[p].failed = <<>>
       /\ failed[p] # <<>> =>
            res[p].status = 403 /\ res[p].hasFailed /\ res[p].failed = failed[p]
       /\ res[p].success = [k \in 1..Len(creates[p]) |-> creates[p][k].data]
       /\ \A k \in 1..Len(creates[p]) :
            creates[p][k].st = "ok" /\ BagIn(creates[p][k].data, table)

C10_Witness ==
  /\ Responded(1)
  /\ res[1].status = 403
  /\ Len(res[1].success) = 1
  /\ Len(res[1].failed) = 1

\* compareEmail was called and its result is known
Compared == comparison.result # "none"

\* the local part and the domain of an address
AtIndex(e) == CHOOSE i \in 1..Len(e) : e[i] = "@"
LocalOf(e) == SubSeq(e, 1, AtIndex(e) - 1)
DomainOf(e) == SubSeq(e, AtIndex(e), Len(e))

\* a local part without its dots
stripDots(l) == SelectSeq(l, LAMBDA c : c # ".")

\* C11: Dot equivalence.  With alias canonicalization enabled, two addresses
\* of the same gmail.com or googlemail.com domain whose local parts differ
\* only by dots (any number, anywhere) compare as equivalent.
C11_DotEquivalence ==
  ( /\ Compared
    /\ comparison.options
    /\ DomainOf(comparison.email1) = DomainOf(comparison.email2)
    /\ stripDots(LocalOf(comparison.email1)) = stripDots(LocalOf(comparison.email2)) )
  => comparison.result = "true"

\* C12: Status rule.  Every row an invocation creates, by user id or by
\* email, carries the requested role, and its status is "requested" exactly
\* when that role is copilot and the caller is neither Connect Admin nor
\* Connect Copilot Manager; otherwise it is "pending".
C12_StatusRule ==
  \A p \in Procs :
    \A k \in 1..Len(creates[p]) :
      LET row == creates[p][k].data
          lacksPrivilege ==
            req[p].caller \cap {"Connect Admin", "Connect Copilot Manager"} = {}
      IN  /\ row.role = req[p].role
          /\ row.status \in {"requested", "pending"}
          /\ row.status = "requested" <=> (req[p].role = "copilot" /\ lacksPrivilege)

C12_Witness ==
  /\ Responded(1)
  /\ req[1].role = "copilot"
  /\ req[1].caller = {"Connect Manager"}
  /\ Len(res[1].success) = 2
  /\ \A k \in 1..2 : res[1].success[k].status = "requested"
  /\ \E row \in DOMAIN table : row.status = "pending" /\ row.role = "copilot"

\* C13: Fire-and-forget invitation email.  Once the creates are joined, an
\* invitation-email task exists for exactly the created rows without user
\* id, with an email and with status "pending" (and none exists before);
\* whatever the tasks do (send, fail, stay under way) the answer can be given
\* at once, and the answer given is the one the rows and the failure entries
\* determine.
C13_FireAndForgetEmail ==
  \A p \in Procs :
    LET tasks == effects[p].emailTasks
        rows == [k \in 1..Len(creates[p]) |-> creates[p][k].data]
    IN  /\ pc[p] \notin {"dispatched", "responded"} => tasks = <<>>
        /\ pc[p] \in {"dispatched", "responded"} =>
             [k \in 1..Len(tasks) |-> tasks[k].invite]
               = SelectSeq(rows, LAMBDA v : v.userId = 0 /\ v.email # ""
                                             /\ v.status = "pending")
        /\ pc[p] = "dispatched" => ENABLED Respond(p)
        /\ Responded(p) =>
             /\ res[p].kind = "response"
             /\ res[p].success = rows
             /\ res[p].failed = failed[p]
             /\ res[p].status = IF failed[p] = <<>> THEN 201 ELSE 403

C13_Witness ==
  /\ Responded(1)
  /\ Len(effects[1].emailTasks) = 1
  /\ effects[1].emailTasks[1].st = "failed"
  /\ Len(res[1].success) = 2
  /\ res[1].status = 201

\* C14: Side effects only after the whole group of creates succeeded.  A
\* notification, a publication or an invitation email of an invocation
\* exists only when every create of it has succeeded, and then there is one
\* notification and one publication per row; once a create has failed the
\* invocation has no notification, no publication, no email and no success
\* list, cannot answer, and its error is a fatal one.
C14_EffectsAfterAllCreates ==
  \A p \in Procs :
    LET rows == [k \in 1..Len(creates[p]) |-> creates[p][k].data]
        announced == \/ effects[p].events # <<>>
                     \/ effects[p].published # <<>>
                     \/ effects[p].emailTasks # <<>>
        aCreateFailed == \E k \in 1..Len(creates[p]) : creates[p][k].st = "failed"
    IN  /\ announced =>
             /\ \A k \in 1..Len(creates[p]) : creates[p][k].st = "ok"
             /\ effects[p].events = rows
             /\ effects[p].published = rows
        /\ pc[p] \in {"dispatched", "responded"} =>
             effects[p].events = rows /\ effects[p].published = rows
        /\ aCreateFailed =>
             /\ ~announced
             /\ res[p].success = <<>> /\ ~res[p].hasFailed
             /\ pc[p] \in {"emailLookup", "creating", "error"}
             /\ pc[p] = "error" => res[p].kind = "error" /\ res[p].status = 500

C14_Witness ==
  /\ pc[1] = "error"
  /\ Len(creates[1]) = 2
  /\ creates[1][1].st = "ok"
  /\ creates[1][2].st = "failed"
  /\ BagIn(creates[1][1].data, table)

\* C15: Persistence is all-or-nothing.  When a create of the first
\* invocation (which began with an empty table) has failed and the
\* invocation is over, with none of its creates under way, the table is
\* empty again: no row of the invocation was kept.
C15_AllOrNothing ==
  \A p \in Procs :
    ( /\ calls = 1
      /\ pc[p] = "error"
      /\ \E k \in 1..Len(creates[p]) : creates[p][k].st = "failed"
      /\ \A k \in 1..Len(creates[p]) : creates[p][k].st # "pending" )
    => table = EmptyBag

\* C16: Registered-identity dedup by email.  No row is created for an email
\* candidate that resolved to a registered account when the email of that
\* account equals, letter case aside, the email of a pending invite the
\* invocation read.
C16_RegisteredDedupByEmail ==
  \A p \in Procs :
    \A k \in 1..Len(creates[p]) :
      LET row == creates[p][k].data
      IN  (row.userId # 0 /\ row.email # "") =>
            ~\E i \in DOMAIN invites[p] :
                i.email # "" /\ toLower(Text(i.email)) = toLower(Text(row.email))

\* C17: Order-independent correlation of the role lookups.  In an invocation
\* of a request for a manager-tier role, in whatever order the lookups
\* resolved, once they are joined: the rejected candidates are exactly the
\* non-member candidates whose own role set misses the manager roles, in the
\* order of the request, and the candidates that go on are exactly the
\* others (the creates are theirs, less those a pending invite names).
C17_OrderIndependentLookups ==
  \A p \in Procs :
    (req[p].role = "manager" /\ req[p].userIds # <<>> /\ effects[p].inviteReads > 0)
    => LET cands == SelectSeq(req[p].userIds, LAMBDA u : u \notin Members)
           bad == SelectSeq(cands, LAMBDA u : UserRoles[u] \cap MANAGER_ROLES = {})
           good == SelectSeq(cands, LAMBDA u : UserRoles[u] \cap MANAGER_ROLES # {})
           rejects == SelectSeq(failed[p], LAMBDA f : f.userId # 0)
           notInvited == SelectSeq(good, LAMBDA u :
                                     ~\E i \in DOMAIN invites[p] : i.userId = u)
       IN  /\ Len(promises[p]) = Len(cands)
           /\ {promises[p][j].nth : j \in 1..Len(promises[p])} = 1..Len(cands)
           /\ [j \in 1..Len(rejects) |-> rejects[j].userId] = bad
           /\ pc[p] = "invites" => invite[p].userIds = good
           /\ pc[p] \in {"creating", "dispatched", "responded"} =>
                [k \in 1..Len(creates[p]) |-> creates[p][k].data.userId] = notInvited

C17_Witness ==
  /\ Responded(1)
  /\ req[1].role = "manager"
  /\ req[1].userIds = <<3, 2>>
  /\ promises[1][1].nth = 2 /\ promises[1][2].nth = 1
  /\ UserIdsOf(res[1].success) = <<2>>
  /\ \E k \in 1..Len(res[1].failed) : res[1].failed[k].userId = 3

\* C18: Overlapping invocations.  The table never holds two pending invites
\* of the same user id or of the same email, also when two invocations that
\* name the same single candidate run at the same time.
C18_NoDuplicatePending ==
  \A r1, r2 \in DOMAIN table :
    (r1.status = "pending" /\ r2.status = "pending" /\ SameIdentity(r1, r2))
    => r1 = r2 /\ table[r1] = 1

\* C19: No false positive.  With alias canonicalization enabled, compareEmail
\* gives true only for two addresses of the same domain whose local parts
\* are the same once letter case and dots are set aside.
C19_NoFalsePositive ==
  ( /\ Compared
    /\ comparison.options
    /\ comparison.result = "true" )
  => /\ DomainOf(comparison.email1) = DomainOf(comparison.email2)
     /\ stripDots(toLower(LocalOf(comparison.email1)))
          = stripDots(toLower(LocalOf(comparison.email2)))
====
